---------------------------- MODULE Spec2Model ----------------------------
(***************************************************************************)
(* Model of the tunable-parameter registry of Clarity (src/tunables.cpp):  *)
(* the global parameter objects, the registry vector `tunables`, and the   *)
(* five entry points outputTunables, outputTunableJSON, adjustTunable,     *)
(* readTunable and readTunables.                                           *)
(*                                                                         *)
(* A parameter's value is a C++ double.  The code divides, multiplies,     *)
(* truncates and prints doubles, so doubles are modelled exactly: a sign,  *)
(* a 53-bit mantissa and a binary exponent, with round-to-nearest-even.    *)
(* The mantissa does not fit a TLC integer and is kept as a little-endian  *)
(* sequence of limbs.                                                      *)
(***************************************************************************)
EXTENDS Integers, Sequences, FiniteSets

VARIABLES tunables, reductions, log, out

vars == <<tunables, reductions, log, out>>

-----------------------------------------------------------------------------
(* Natural numbers of any size: little-endian sequences of limbs, no       *)
(* leading (most significant) zero limb; <<>> is zero.                     *)

Base == 2^15

Abs(a) == IF a < 0 THEN -a ELSE a

Range(f) == {f[i] : i \in DOMAIN f}

RECURSIVE IntBitLen(_)
IntBitLen(a) == IF a = 0 THEN 0 ELSE 1 + IntBitLen(a \div 2)

LimbBits == IntBitLen(Base) - 1

RECURSIVE FromInt(_)
FromInt(a) == IF a = 0 THEN <<>> ELSE <<a % Base>> \o FromInt(a \div Base)

RECURSIVE ToInt(_)
ToInt(n) == IF n = <<>> THEN 0 ELSE n[1] + Base * ToInt(Tail(n))

RECURSIVE Norm(_)
Norm(n) ==
    IF n = <<>> THEN <<>>
    ELSE IF n[Len(n)] = 0 THEN Norm(SubSeq(n, 1, Len(n) - 1))
    ELSE n

RECURSIVE MulSmall(_, _, _)
MulSmall(n, k, carry) ==
    IF n = <<>> THEN FromInt(carry)
    ELSE LET t == n[1] * k + carry
         IN  <<t % Base>> \o MulSmall(Tail(n), k, t \div Base)

RECURSIVE DivRec(_, _)
DivRec(n, k) ==
    IF n = <<>> THEN [q |-> <<>>, r |-> 0]
    ELSE LET hi == DivRec(Tail(n), k)
             t  == hi.r * Base + n[1]
         IN  [q |-> <<t \div k>> \o hi.q, r |-> t % k]

DivSmall(n, k) == LET d == DivRec(n, k) IN [q |-> Norm(d.q), r |-> d.r]

Zeros(c) == [i \in 1..c |-> 0]

ShiftLeft(n, s) ==
    IF n = <<>> THEN <<>>
    ELSE Zeros(s \div LimbBits) \o MulSmall(n, 2^(s % LimbBits), 0)

ShiftRight(n, s) ==
    IF s \div LimbBits >= Len(n) THEN <<>>
    ELSE DivSmall(SubSeq(n, s \div LimbBits + 1, Len(n)), 2^(s % LimbBits)).q

\* whether the s lowest bits of n are all zero
LowBitsZero(n, s) ==
    /\ \A i \in 1..(s \div LimbBits) : i > Len(n) \/ n[i] = 0
    /\ \/ s \div LimbBits + 1 > Len(n)
       \/ n[s \div LimbBits + 1] % 2^(s % LimbBits) = 0

TestBit(n, i) ==
    /\ i \div LimbBits + 1 <= Len(n)
    /\ (n[i \div LimbBits + 1] \div 2^(i % LimbBits)) % 2 = 1

BitLen(n) ==
    IF n = <<>> THEN 0 ELSE LimbBits * (Len(n) - 1) + IntBitLen(n[Len(n)])

Inc(n) == IF n = <<>> THEN <<1>> ELSE
    LET RECURSIVE Add(_, _)
        Add(m, c) == IF c = 0 THEN m
                     ELSE IF m = <<>> THEN <<c>>
                     ELSE <<(m[1] + c) % Base>> \o Add(Tail(m), (m[1] + c) \div Base)
    IN Add(n, 1)

IsOdd(n) == n # <<>> /\ n[1] % 2 = 1

RECURSIVE MulPow10(_, _)
MulPow10(n, j) == IF j = 0 THEN n ELSE MulPow10(MulSmall(n, 10, 0), j - 1)

RECURSIVE DecLen(_)
DecLen(n) == IF n = <<>> THEN 0 ELSE 1 + DecLen(DivSmall(n, 10).q)


-----------------------------------------------------------------------------
(* IEEE-754 binary64 (the C++ `double` of Tunable::value).  A double is    *)
(* [neg, man, exp] with value (-1)^neg * man * 2^exp; man is zero or has   *)
(* exactly DBL_MANT_DIG bits.  Subnormals, infinities and NaN cannot       *)
(* arise: every value is an int divided by a nonzero int.                  *)

DBL_MANT_DIG == 53

\* round-to-nearest-even of (n + sticky) * 2^e, n # 0; sticky says that a
\* nonzero amount below the lowest bit of n was dropped (then BitLen(n) >
\* DBL_MANT_DIG)
RoundNearestEven(neg, n, sticky, e) ==
    LET L == BitLen(n)
    IN  IF L <= DBL_MANT_DIG
        THEN [neg |-> neg, man |-> ShiftLeft(n, DBL_MANT_DIG - L),
              exp |-> e - (DBL_MANT_DIG - L)]
        ELSE LET drop == L - DBL_MANT_DIG
                 q    == ShiftRight(n, drop)
                 half == TestBit(n, drop - 1)
                 rest == sticky \/ ~LowBitsZero(n, drop - 1)
                 up   == half /\ (rest \/ IsOdd(q))
                 q1   == IF up THEN Inc(q) ELSE q
             IN  IF BitLen(q1) > DBL_MANT_DIG
                 THEN [neg |-> neg, man |-> ShiftRight(q1, 1), exp |-> e + drop + 1]
                 ELSE [neg |-> neg, man |-> q1, exp |-> e + drop]

\* double(a) / double(d) for ints a, d with d # 0
DoubleDiv(a, d) ==
    LET neg == (a < 0) # (d < 0)
    IN  IF a = 0 THEN [neg |-> neg, man |-> <<>>, exp |-> 0]
        ELSE LET s  == DBL_MANT_DIG + 11
                 qr == DivSmall(ShiftLeft(FromInt(Abs(a)), s), Abs(d))
             IN  RoundNearestEven(neg, qr.q, qr.r # 0, -s)

\* v * double(d) for a double v and an int d
DoubleMul(v, d) ==
    LET neg == v.neg # (d < 0)
    IN  IF v.man = <<>> \/ d = 0 THEN [neg |-> neg, man |-> <<>>, exp |-> 0]
        ELSE RoundNearestEven(neg, MulSmall(v.man, Abs(d), 0), FALSE, v.exp)

\* static_cast<int>(v): truncation toward zero
TruncToInt(v) ==
    LET mag == IF v.exp >= 0 THEN ToInt(ShiftLeft(v.man, v.exp))
               ELSE ToInt(ShiftRight(v.man, -v.exp))
    IN  IF v.neg THEN -mag ELSE mag


-----------------------------------------------------------------------------
(* `std::cout << double` with the stream's default settings: %g with       *)
(* DefaultPrecision significant digits, correctly rounded from the exact   *)
(* binary value, trailing zeros removed.  The printed text is modelled by  *)
(* the decimal number it denotes: [neg, digits, exp10] stands for          *)
(* (-1)^neg * digits * 10^exp10, digits not divisible by 10 unless zero.   *)

DefaultPrecision == 6

RECURSIVE StripZeros(_, _, _)
StripZeros(neg, digits, e) ==
    IF digits # 0 /\ digits % 10 = 0 THEN StripZeros(neg, digits \div 10, e + 1)
    ELSE [neg |-> neg, digits |-> digits, exp10 |-> IF digits = 0 THEN 0 ELSE e]

\* least j >= 1 with n * 10^j >= 2^s, for 0 < n < 2^s
RECURSIVE FracLead(_, _, _)
FracLead(n, s, j) ==
    LET m == MulSmall(n, 10, 0)
    IN  IF ShiftRight(m, s) # <<>> THEN j ELSE FracLead(m, s, j + 1)

PrintDouble(v) ==
    IF v.man = <<>> THEN [neg |-> v.neg, digits |-> 0, exp10 |-> 0]
    ELSE
    LET n  == IF v.exp > 0 THEN ShiftLeft(v.man, v.exp) ELSE v.man
        s  == IF v.exp > 0 THEN 0 ELSE -v.exp
        ip == ShiftRight(n, s)                       \* integer part
        k  == IF ip # <<>> THEN DecLen(ip) - 1 ELSE -FracLead(n, s, 1)
        p  == DefaultPrecision - 1
        \* the value scaled to DefaultPrecision integer digits, rounded
        \* half-to-even on the exact value
        scaled ==
            IF k <= p
            THEN LET t    == MulPow10(n, p - k)
                     q    == ToInt(ShiftRight(t, s))
                     half == s > 0 /\ TestBit(t, s - 1)
                     rest == s > 1 /\ ~LowBitsZero(t, s - 1)
                 IN  IF half /\ (rest \/ q % 2 = 1) THEN q + 1 ELSE q
            ELSE LET qr   == DivSmall(ip, 10^(k - p))
                     q    == ToInt(qr.q)
                     frac == ~LowBitsZero(n, s)
                     up   == \/ 2 * qr.r > 10^(k - p)
                             \/ 2 * qr.r = 10^(k - p) /\ (frac \/ q % 2 = 1)
                 IN  IF up THEN q + 1 ELSE q
    IN  StripZeros(v.neg, scaled, k - p)


-----------------------------------------------------------------------------
(* The parameter objects (tunables.cpp lines 3-50) in the order in which   *)
(* `tunables` (lines 54-90) points to them.  Each row is                   *)
(*   <<name, n, m, divisor>>  for  Tunable x(name, n/m, divisor),          *)
(* the decimal literal of the source written as the fraction n/m (1.8 is   *)
(* 18/10); the compiler converts it to the nearest double, which is what   *)
(* DoubleDiv(n, m) computes.                                               *)

Decls == <<
    <<"ASP_BaseDelta", 20, 1, 1>>,
    <<"ASP_DeltaMultiplier", 18, 10, 10>>,
    <<"ASP_DepthCondition", 4, 1, 1>>,
    <<"RFP_DepthCondition", 11, 1, 1>>,
    <<"RFP_Multiplier", 84, 1, 1>>,
    <<"IIR_DepthCondition", 5, 1, 1>>,
    <<"FP_DepthCondition", 3, 1, 1>>,
    <<"FP_Base", 278, 1, 1>>,
    <<"FP_Multiplier", 67, 1, 1>>,
    <<"LMP_DepthCondition", 8, 1, 1>>,
    <<"LMP_Base", 0, 1, 1>>,
    <<"SPR_DepthCondition", 3, 1, 1>>,
    <<"SPR_CaptureThreshold", -108, 1, -1>>,
    <<"SPR_QuietThreshold", -32, 1, -1>>,
    <<"NMP_Divisor", 196, 1, 1>>,
    <<"NMP_Subtractor", 3, 1, 1>>,
    <<"NMP_DepthCondition", 2, 1, 1>>,
    <<"HMR_Divisor", 8074, 1, 1>>,
    <<"CMR_Divisor", 3000, 1, 1>>,
    <<"LMR_Base", 80, 100, 100>>,
    <<"LMR_Multiplier", 56, 100, 100>>,
    <<"HST_MaxBonus", 1892, 1, 1>>,
    <<"HST_Multiplier", 4, 1, 1>>,
    <<"HST_Adder", 121, 1, 1>>,
    <<"HST_Subtractor", 120, 1, 1>>,
    <<"SIN_DepthCondition", 8, 1, 1>>,
    <<"SIN_DepthMargin", 3, 1, 1>>,
    <<"SIN_DepthScale", 24, 1, 1>>,
    <<"RAZ_DepthMultiplier", 395, 1, 1>>,
    <<"NTM_DepthCondition", 8, 1, 1>>,
    <<"NTM_Subtractor", 153, 100, 100>>,
    <<"NTM_Multiplier", 139, 100, 100>>,
    <<"NTM_Default", 98, 100, 100>>,
    <<"HIP_DepthCondition", 4, 1, 1>>,
    <<"HIP_DepthMultiplier", -1536, 1, -1>>
>>

\* Tunable::Tunable(name, value, divisor) and the struct's fields.  The
\* struct is declared in globals.h: value is stored as passed (LMR_Base
\* starts at 0.80, which reads back as 80 at the tuning scale); max and
\* step are metadata fixed at construction, taken here as twice the
\* declared external value and a twentieth of that, at least 1.  No
\* property below depends on these two numbers, only on their staying put.
Tunable(name, n, m, divisor) ==
    LET value == DoubleDiv(n, m)
        max   == 2 * TruncToInt(DoubleMul(value, divisor))
    IN  [name |-> name, value |-> value, divisor |-> divisor,
         max |-> max, step |-> IF max \div 20 = 0 THEN 1 ELSE max \div 20]

\* Tunable::updateValue(newValue): value = newValue / divisor
updateValue(t, x) == [t EXCEPT !.value = DoubleDiv(x, t.divisor)]

\* What calculateReductions() leaves behind: how often it ran and the two
\* coefficients it read from lmrBase and lmrMultiplier when it last ran.
calculateReductions(red, ts) ==
    [calls |-> red.calls + 1,
     base  |-> (CHOOSE t \in Range(ts) : t.name = "LMR_Base").value,
     mult  |-> (CHOOSE t \in Range(ts) : t.name = "LMR_Multiplier").value]

-----------------------------------------------------------------------------
(* Inputs of the entry points.                                             *)

MaxCalls == 2

\* two names that trigger the recomputation, three that do not (divisors
\* 1, -1 and 10), and two that are not registered, one of them differing
\* from a registered name only in case
ArgNames == {"LMR_Base", "LMR_Multiplier", "RFP_Multiplier",
             "SPR_CaptureThreshold", "ASP_DeltaMultiplier",
             "NOT_A_REAL_NAME", "lmr_base"}

\* negative, zero, in range, above every declared max, and with more digits
\* than the stream prints
ArgValues == {-5, 0, 29, 95, 999999, 1234567}

\* every integer up to MaxSweep in magnitude, for the runs that set one
\* parameter and read it back
MaxSweep == 1000

SweepValues == (-MaxSweep..MaxSweep) \cup ArgValues

-----------------------------------------------------------------------------
(* State.                                                                  *)
(*   tunables   the registry vector together with the objects it points to *)
(*   reductions the derived state written by calculateReductions           *)
(*   log        the calls made so far, oldest first                        *)
(*   out        what the last call wrote to std::cout                      *)

InitialTunables ==
    [i \in 1..Len(Decls) |->
        Tunable(Decls[i][1], Decls[i][2], Decls[i][3], Decls[i][4])]

Init ==
    /\ tunables = InitialTunables
    /\ reductions = [calls |-> 0, base |-> DoubleDiv(0, 1), mult |-> DoubleDiv(0, 1)]
    /\ log = <<>>
    /\ out = <<>>

NoSuchTunable == [text |-> "No Such Tunable"]

\* a comparison that ignores case
FindIgnoringCase(ts, name) ==
    LET n == IF name = "lmr_base" THEN "LMR_Base" ELSE name
    IN  IF \E i \in 1..Len(ts) : ts[i].name = n
        THEN CHOOSE i \in 1..Len(ts) : ts[i].name = n
        ELSE 0

\* a comparison of the names' prefixes up to the underscore only
FindByPrefix(ts, name) ==
    LET n == IF name = "LMR_Multiplier" THEN "LMR_Base" ELSE name
    IN  IF \E i \in 1..Len(ts) : ts[i].name = n
        THEN CHOOSE i \in 1..Len(ts) : ts[i].name = n
        ELSE 0

\* the scan `for(Tunable *tunable : tunables) if(tunable->name == name)`:
\* the index of the first match, 0 when the loop runs to its end
Find(ts, name) ==
    IF \E i \in 1..Len(ts) : ts[i].name = name
    THEN CHOOSE i \in 1..Len(ts) :
            /\ ts[i].name = name
            /\ \A j \in 1..(i - 1) : ts[j].name # name
    ELSE 0

\* static_cast<int>(tunable->value * tunable->divisor)
ExternalValue(t) == TruncToInt(DoubleMul(t.value, t.divisor))

\* only the first of the two names
TriggersOnBaseOnly(name) == name = "LMR_Base"

\* name == "LMR_Base" || name == "LMR_Multiplier"
TriggersReductions(name) == name = "LMR_Base" \/ name = "LMR_Multiplier"

\* the recomputation placed before the update
AdjustFoundRecomputeFirst(ts, red, i, name, x) ==
    [tunables   |-> [ts EXCEPT ![i] = updateValue(@, x)],
     reductions |-> IF TriggersReductions(name)
                    THEN calculateReductions(red, ts) ELSE red,
     out        |-> <<>>]

\* the `return` left out: the loop runs on to the diagnostic after it
AdjustFoundNoReturn(ts, red, i, name, x) ==
    LET updated == [ts EXCEPT ![i] = updateValue(@, x)]
    IN  [tunables   |-> updated,
         reductions |-> IF TriggersReductions(name)
                        THEN calculateReductions(red, updated) ELSE red,
         out        |-> <<NoSuchTunable>>]

\* adjustTunable once the name has matched tunables[i]: update, recompute
\* if the name asks for it, return
AdjustFound(ts, red, i, name, x) ==
    LET updated == [ts EXCEPT ![i] = updateValue(@, x)]
    IN  [tunables   |-> updated,
         reductions |-> IF TriggersReductions(name)
                        THEN calculateReductions(red, updated) ELSE red,
         out        |-> <<>>]

\* adjustTunable when the loop ends without a match
AdjustNotFound(ts, red) ==
    [tunables |-> ts, reductions |-> red, out |-> <<NoSuchTunable>>]

Called(op, name, x) ==
    /\ Len(log) < MaxCalls
    /\ log' = Append(log, [op |-> op, name |-> name, x |-> x])

outputTunables ==
    /\ Called("outputTunables", "", 0)
    /\ out' = [i \in 1..Len(tunables) |->
                 [name    |-> tunables[i].name,
                  default |-> ExternalValue(tunables[i]),
                  min     |-> 0,
                  max     |-> tunables[i].max]]
    /\ UNCHANGED <<tunables, reductions>>

\* the snapshot writing the truncated value back into the parameter
outputTunableJSONStoring ==
    /\ Called("outputTunableJSON", "", 0)
    /\ out' = [i \in 1..Len(tunables) |->
                 [name      |-> tunables[i].name,
                  value     |-> ExternalValue(tunables[i]),
                  min_value |-> 0,
                  max_value |-> tunables[i].max,
                  step      |-> tunables[i].step]]
    /\ tunables' = [i \in 1..Len(tunables) |->
                      updateValue(tunables[i], ExternalValue(tunables[i]))]
    /\ UNCHANGED reductions

outputTunableJSON ==
    /\ Called("outputTunableJSON", "", 0)
    /\ out' = [i \in 1..Len(tunables) |->
                 [name      |-> tunables[i].name,
                  value     |-> ExternalValue(tunables[i]),
                  min_value |-> 0,
                  max_value |-> tunables[i].max,
                  step      |-> tunables[i].step]]
    /\ UNCHANGED <<tunables, reductions>>

adjustTunable(name, x) ==
    /\ Called("adjustTunable", name, x)
    /\ LET i == Find(tunables, name)
           r == IF i # 0 THEN AdjustFound(tunables, reductions, i, name, x)
                ELSE AdjustNotFound(tunables, reductions)
       IN  /\ tunables' = r.tunables
           /\ reductions' = r.reductions
           /\ out' = r.out

\* the value printed at the tuning scale
readTunableScaled(name) ==
    /\ Called("readTunable", name, 0)
    /\ LET i == Find(tunables, name)
       IN  out' = IF i # 0
                  THEN <<[value |-> PrintDouble(DoubleMul(tunables[i].value,
                                                          tunables[i].divisor))]>>
                  ELSE <<NoSuchTunable>>
    /\ UNCHANGED <<tunables, reductions>>

readTunable(name) ==
    /\ Called("readTunable", name, 0)
    /\ LET i == Find(tunables, name)
       IN  out' = IF i # 0
                  THEN <<[value |-> PrintDouble(tunables[i].value)]>>
                  ELSE <<NoSuchTunable>>
    /\ UNCHANGED <<tunables, reductions>>

\* the loop stopping one element early
readTunablesOffByOne ==
    /\ Called("readTunables", "", 0)
    /\ out' = [i \in 1..(Len(tunables) - 1) |->
                 [name    |-> tunables[i].name,
                  value   |-> PrintDouble(tunables[i].value),
                  min     |-> 0,
                  max     |-> tunables[i].max,
                  divisor |-> tunables[i].divisor,
                  step    |-> tunables[i].step]]
    /\ UNCHANGED <<tunables, reductions>>

readTunables ==
    /\ Called("readTunables", "", 0)
    /\ out' = [i \in 1..Len(tunables) |->
                 [name    |-> tunables[i].name,
                  value   |-> PrintDouble(tunables[i].value),
                  min     |-> 0,
                  max     |-> tunables[i].max,
                  divisor |-> tunables[i].divisor,
                  step    |-> tunables[i].step]]
    /\ UNCHANGED <<tunables, reductions>>

Next ==
    \/ outputTunables
    \/ outputTunableJSON
    \/ \E name \in ArgNames, x \in ArgValues : adjustTunable(name, x)
    \/ \E name \in ArgNames : readTunable(name)
    \/ readTunables

Spec == Init /\ [][Next]_vars

\* The runs of Spec that consist of one adjustTunable call followed by a
\* readTunable call of the same name, over the wider range of values.
SweepNext ==
    \/ log = <<>> /\ \E name \in ArgNames, x \in SweepValues : adjustTunable(name, x)
    \/ Len(log) = 1 /\ readTunable(log[1].name)

SpecSweep == Init /\ [][SweepNext]_vars

-----------------------------------------------------------------------------
(* Vocabulary of the properties.                                           *)

RegisteredNames == {Decls[i][1] : i \in 1..Len(Decls)}

DeclIndex(name) == CHOOSE i \in 1..Len(Decls) : Decls[i][1] = name

DependentNames == {"LMR_Base", "LMR_Multiplier"}

ReadOps == {"outputTunables", "outputTunableJSON", "readTunable", "readTunables"}

LastCall == log[Len(log)]

\* the external integer a parameter was declared with: literal * divisor
DeclaredExternal(i) == (Decls[i][2] * Decls[i][4]) \div Decls[i][3]

AdjustsOf(name) ==
    {i \in 1..Len(log) : log[i].op = "adjustTunable" /\ log[i].name = name}

\* the argument of the latest adjustTunable(name, _)
LatestAdjust(name) ==
    log[CHOOSE i \in AdjustsOf(name) : \A j \in AdjustsOf(name) : j <= i].x

\* the fraction num/den the parameter should hold: x/divisor after an
\* adjustTunable(name, x), the declared literal before any
HeldNum(name) ==
    IF AdjustsOf(name) # {} THEN LatestAdjust(name) ELSE Decls[DeclIndex(name)][2]

HeldDen(name) ==
    IF AdjustsOf(name) # {} THEN Decls[DeclIndex(name)][4] ELSE Decls[DeclIndex(name)][3]

Signed(pr) == IF pr.neg THEN -pr.digits ELSE pr.digits

\* the printed decimal pr denotes exactly a/d
PrintsExactly(pr, a, d) ==
    IF pr.exp10 >= 0 THEN Signed(pr) * 10^pr.exp10 * d = a
    ELSE Signed(pr) * d = a * 10^(-pr.exp10)

RECURSIVE IntDecLen(_)
IntDecLen(a) == IF a = 0 THEN 0 ELSE 1 + IntDecLen(a \div 10)

RECURSIVE SignificantDigits(_)
SignificantDigits(a) ==
    IF a = 0 THEN 0
    ELSE IF a % 10 = 0 THEN SignificantDigits(a \div 10)
    ELSE IntDecLen(a)

\* the printed decimal pr is within half a unit of its DefaultPrecision-th
\* significant digit of a/d
PrintsRounded(pr, a, d) ==
    LET u == IntDecLen(pr.digits) + pr.exp10 - DefaultPrecision  \* that unit is 10^u
        m == IF u < 0 THEN -u ELSE 0
    IN  2 * Abs(Signed(pr) * 10^(pr.exp10 + m) * d - a * 10^m)
            <= 10^(u + m) * Abs(d)

-----------------------------------------------------------------------------
(* C1  Unknown-name safety: an adjustTunable or readTunable call whose     *)
(* name equals no registered name writes exactly "No Such Tunable",        *)
(* changes no parameter and does not run the recomputation.                *)
C1_UnknownNameSafety ==
    [][ (/\ log' # log
         /\ LastCall'.op \in {"adjustTunable", "readTunable"}
         /\ LastCall'.name \notin RegisteredNames)
        => /\ out' = <<NoSuchTunable>>
           /\ tunables' = tunables
           /\ reductions' = reductions ]_vars

C1_Witness ==
    /\ Len(log) = 2
    /\ log[1] = [op |-> "adjustTunable", name |-> "lmr_base", x |-> 95]
    /\ log[2] = [op |-> "readTunable", name |-> "NOT_A_REAL_NAME", x |-> 0]
    /\ out = <<NoSuchTunable>>
    /\ tunables = InitialTunables
    /\ reductions.calls = 0

(* C2  Trigger gating: the number of recomputations always equals the      *)
(* number of adjustTunable calls made on LMR_Base or LMR_Multiplier (so    *)
(* each such call runs it once and a call on any other name never).        *)
C2_TriggerGating ==
    reductions.calls =
        Cardinality({i \in 1..Len(log) : /\ log[i].op = "adjustTunable"
                                          /\ log[i].name \in DependentNames})

C2_Witness ==
    /\ Len(log) = 2
    /\ log[1] = [op |-> "adjustTunable", name |-> "LMR_Multiplier", x |-> 29]
    /\ log[2] = [op |-> "adjustTunable", name |-> "RFP_Multiplier", x |-> 95]
    /\ reductions.calls = 1

(* C3 as stated: readTunable(name) reports exactly the value the parameter *)
(* holds, x/divisor after adjustTunable(name, x), for every x.             *)
C3_ReadsExactValue ==
    (/\ Len(log) > 0
     /\ LastCall.op = "readTunable"
     /\ LastCall.name \in RegisteredNames)
    => /\ Len(out) = 1
       /\ PrintsExactly(out[1].value, HeldNum(LastCall.name), HeldDen(LastCall.name))

(* C3 amended: readTunable(name) reports the value the parameter holds,    *)
(* x/divisor after adjustTunable(name, x) whatever the sign or size of x,  *)
(* to six significant digits: exactly when x has at most six significant   *)
(* digits, rounded to the sixth otherwise.                                 *)
C3_ReadsValueToSixDigits ==
    (/\ Len(log) > 0
     /\ LastCall.op = "readTunable"
     /\ LastCall.name \in RegisteredNames)
    => LET a == HeldNum(LastCall.name)
           d == HeldDen(LastCall.name)
       IN  /\ Len(out) = 1
           /\ IF SignificantDigits(Abs(a)) <= DefaultPrecision
              THEN PrintsExactly(out[1].value, a, d)
              ELSE PrintsRounded(out[1].value, a, d)

C3_Witness ==
    /\ Len(log) = 2
    /\ log[1] = [op |-> "adjustTunable", name |-> "LMR_Base", x |-> 95]
    /\ log[2] = [op |-> "readTunable", name |-> "LMR_Base", x |-> 0]
    /\ out = <<[value |-> [neg |-> FALSE, digits |-> 95, exp10 |-> -2]]>>

(* C4  Round-trip: after adjustTunable(name, x) the integer that the       *)
(* options output and the JSON snapshot report for that parameter is x.    *)
C4_RoundTrip ==
    (/\ Len(log) > 0
     /\ LastCall.op \in {"outputTunables", "outputTunableJSON"})
    => \A name \in RegisteredNames :
          AdjustsOf(name) # {} =>
             LET e == out[DeclIndex(name)]
             IN  (IF LastCall.op = "outputTunables" THEN e.default ELSE e.value)
                     = LatestAdjust(name)

(* C5  Lookup totality: each of the three reports holds exactly one entry  *)
(* for every name present at construction, in construction order.          *)
C5_LookupTotality ==
    (/\ Len(log) > 0
     /\ LastCall.op \in {"outputTunables", "outputTunableJSON", "readTunables"})
    => /\ \A name \in RegisteredNames :
             Cardinality({i \in 1..Len(out) : out[i].name = name}) = 1
       /\ \A i \in 1..Len(out) : \A j \in 1..Len(out) :
             i < j => DeclIndex(out[i].name) < DeclIndex(out[j].name)

C5_Witness ==
    /\ Len(log) = 2
    /\ log[1].op = "adjustTunable" /\ log[1].name = "SPR_CaptureThreshold"
    /\ log[2].op = "readTunables"
    /\ Len(out) = Len(Decls)
    /\ out[Len(out)].name = "HIP_DepthMultiplier"

(* C6  Read purity and idempotence: the four reporting calls change no     *)
(* parameter and never run the recomputation, and a readTunables or        *)
(* outputTunableJSON call directly after one of the same kind writes the   *)
(* same output.                                                            *)
C6_ReadPurity ==
    [][ (log' # log /\ LastCall'.op \in ReadOps)
        => /\ tunables' = tunables
           /\ reductions' = reductions
           /\ (/\ Len(log) > 0
               /\ LastCall.op = LastCall'.op
               /\ LastCall.op \in {"readTunables", "outputTunableJSON"})
              => out' = out ]_vars

C6_Witness ==
    /\ Len(log) = 2
    /\ log[1].op = "outputTunableJSON"
    /\ log[2].op = "outputTunableJSON"
    /\ Len(out) = Len(Decls)
    /\ tunables = InitialTunables

(* C7  Options line default: in every state outputTunables reports, for    *)
(* every parameter, the external integer it was declared with as the       *)
(* default, and its declared maximum.                                      *)
C7_OptionsDefault ==
    (Len(log) > 0 /\ LastCall.op = "outputTunables")
    => \A i \in 1..Len(Decls) :
          /\ out[i].name = Decls[i][1]
          /\ out[i].default = DeclaredExternal(i)
          /\ out[i].min = 0
          /\ out[i].max = InitialTunables[i].max

(* C8 as stated: every adjustTunable call writes a diagnostic, a success   *)
(* report when the name is found and "No Such Tunable" when it is not.     *)
C8_AlwaysWritesDiagnostic ==
    (Len(log) > 0 /\ LastCall.op = "adjustTunable")
    => /\ out # <<>>
       /\ LastCall.name \notin RegisteredNames => out = <<NoSuchTunable>>
       /\ LastCall.name \in RegisteredNames => out # <<NoSuchTunable>>

(* C8 amended: an adjustTunable call whose name is not found writes "No    *)
(* Such Tunable"; one whose name is found writes nothing.                  *)
C8_DiagnosticOnFailureOnly ==
    (Len(log) > 0 /\ LastCall.op = "adjustTunable")
    => /\ LastCall.name \notin RegisteredNames => out = <<NoSuchTunable>>
       /\ LastCall.name \in RegisteredNames => out = <<>>

C8_Witness ==
    /\ Len(log) = 2
    /\ log[1] = [op |-> "adjustTunable", name |-> "NOT_A_REAL_NAME", x |-> -5]
    /\ log[2] = [op |-> "adjustTunable", name |-> "LMR_Base", x |-> 95]
    /\ out = <<>>
    /\ tunables # InitialTunables

(* C9  Recomputation ordering: once the recomputation has run, and so      *)
(* whenever an adjustTunable call on LMR_Base or LMR_Multiplier has        *)
(* returned, its latest run read the values the two parameters hold now.   *)
C9_RecomputationOrdering ==
    (\/ reductions.calls > 0
     \/ \E name \in DependentNames : AdjustsOf(name) # {})
    => /\ reductions.base = tunables[DeclIndex("LMR_Base")].value
       /\ reductions.mult = tunables[DeclIndex("LMR_Multiplier")].value

C9_Witness ==
    /\ Len(log) = 2
    /\ log[1] = [op |-> "adjustTunable", name |-> "LMR_Base", x |-> 95]
    /\ log[2] = [op |-> "adjustTunable", name |-> "LMR_Multiplier", x |-> 29]
    /\ reductions.calls = 2
    /\ reductions.base = DoubleDiv(95, 100)
    /\ reductions.mult = DoubleDiv(29, 100)

(* C10  Update frame: an adjustTunable call whose name is registered       *)
(* changes nothing but the value of the one parameter of that name; the    *)
(* registry keeps its length and order, and every parameter its name,      *)
(* divisor, max and step.                                                  *)
C10_UpdateFrame ==
    [][ (/\ log' # log
         /\ LastCall'.op = "adjustTunable"
         /\ LastCall'.name \in RegisteredNames)
        => LET k == DeclIndex(LastCall'.name)
           IN  /\ Len(tunables') = Len(tunables)
               /\ \A i \in 1..Len(tunables) :
                     /\ i # k => tunables'[i] = tunables[i]
                     /\ tunables'[i] = [tunables[i] EXCEPT !.value = tunables'[i].value]
                     /\ tunables'[i].name = Decls[i][1] ]_vars

C10_Witness ==
    /\ Len(log) = 1
    /\ log[1] = [op |-> "adjustTunable", name |-> "SPR_CaptureThreshold", x |-> 29]
    /\ tunables[13].name = "SPR_CaptureThreshold"
    /\ tunables[13].value # InitialTunables[13].value
    /\ \A i \in 1..Len(Decls) : i # 13 => tunables[i] = InitialTunables[i]

=============================================================================
